---- MODULE Spec2Model ----
(***************************************************************************)
(* Model of the two functions of the repository:                           *)
(*   optimize_portfolio  (src/portfolio_optimization_utils.py)             *)
(*   return_portfolios   (src/random_portfolios_gen.py)                    *)
(*                                                                         *)
(* Numbers.  Every real quantity is held exactly as an integer multiple of *)
(* a fixed unit.  Weights, weight bounds and the right-hand sides b, h of  *)
(* the quadratic program are held in units of 1/Scale, where               *)
(* Scale = num_target_returns - 1, so that the 100 values of np.linspace   *)
(* are integers.  A portfolio return is held in units of 1/Scale.  A risk  *)
(* sqrt(w' Sigma w) is held as its radicand in units of 1/Scale^2; sqrt is *)
(* strictly increasing, so risks compare as their radicands do.  A Sharpe  *)
(* ratio (return - rf)/risk is held as the pair [n, v] standing for        *)
(* n / sqrt(v); v = 0 stands for -infinity, the value the code assigns to  *)
(* a zero-risk portfolio.                                                  *)
(***************************************************************************)
EXTENDS Integers, Sequences, FiniteSets, TLC

VARIABLES
    fn,                     \* the function that was called
    pc,                     \* "call" | "sweep" | "sample" | "returned" | "raised"
    returns_df,             \* optimize_portfolio argument (shape, columns, mean(), cov())
    risk_free_rate,         \* optimize_portfolio argument
    weight_bounds,          \* optimize_portfolio argument
    solver,                 \* behaviour of the external QP solver during this call
    min_weights,            \* per-asset lower bounds (<<>> before they are built)
    max_weights,            \* per-asset upper bounds (<<>> before they are built)
    target_idx,             \* position of the for loop in target_returns (1-based)
    efficient_frontier,     \* list of rows appended by the sweep
    max_sharpe_ratio,       \* running maximum of the sweep
    max_sharpe_portfolio,   \* None or <<portfolio>>
    min_variance_portfolio, \* None or <<portfolio>>
    qp_log,                 \* history: one entry per solvers.qp call
    fallback_taken,         \* history: the post-hoc idxmax scan of line 149 ran
    expected_returns,       \* return_portfolios argument
    cov_matrix,             \* return_portfolios argument
    num_portfolios,         \* return_portfolios argument
    port_returns,           \* return_portfolios local list
    port_volatility,        \* return_portfolios local list
    stock_weights,          \* return_portfolios local list
    stdout,                 \* lines printed to standard output
    stderr,                 \* lines printed to standard error
    exception,              \* name of the exception that left the function, or ""
    result                  \* None or <<returned value>>

optVars == <<returns_df, risk_free_rate, weight_bounds, solver, min_weights,
             max_weights, target_idx, efficient_frontier, max_sharpe_ratio,
             max_sharpe_portfolio, min_variance_portfolio, qp_log, fallback_taken>>
genVars == <<expected_returns, cov_matrix, num_portfolios, port_returns,
             port_volatility, stock_weights>>
vars == <<fn, pc, optVars, genVars, stdout, stderr, exception, result>>

None == <<>>
Some(v) == <<v>>

(***************************************************************************)
(* Bounds of the model.                                                    *)
(***************************************************************************)
MaxObs == 2          \* most observation rows of returns_df
FaultPeriod == 2     \* solver faults recur every FaultPeriod targets
MaxPortfolios == 2   \* largest num_portfolios
MaxCovDim == 3       \* largest side of cov_matrix

(***************************************************************************)
(* Program constants.                                                      *)
(***************************************************************************)
num_target_returns == 100
Scale == num_target_returns - 1

(***************************************************************************)
(* Vector helpers (np.dot on small vectors and matrices).                  *)
(***************************************************************************)
RECURSIVE SumTo(_, _)
SumTo(f, n) == IF n = 0 THEN 0 ELSE f[n] + SumTo(f, n - 1)

Dot(a, b) == SumTo([i \in 1..Len(a) |-> a[i] * b[i]], Len(a))

MatVec(m, x) == [i \in 1..Len(m) |-> Dot(m[i], x)]

Quad(m, x) == Dot(x, MatVec(m, x))

Fill(n, v) == [i \in 1..n |-> v]

RECURSIVE SeqMin(_, _)
SeqMin(s, n) == IF n = 1 THEN s[1]
                ELSE LET m == SeqMin(s, n - 1) IN IF s[n] < m THEN s[n] ELSE m

RECURSIVE SeqMax(_, _)
SeqMax(s, n) == IF n = 1 THEN s[1]
                ELSE LET m == SeqMax(s, n - 1) IN IF s[n] > m THEN s[n] ELSE m

(***************************************************************************)
(* Sharpe ratios: [n, v] stands for n / sqrt(v), and v = 0 for -np.inf.    *)
(***************************************************************************)
NegInf == [n |-> -1, v |-> 0]

IsNegInf(s) == s.v = 0

\* a > b on floats, for two values of the form n / sqrt(v) or -inf
FloatGT(a, b) ==
    IF IsNegInf(a) THEN FALSE
    ELSE IF IsNegInf(b) THEN TRUE
    ELSE IF a.n >= 0 /\ b.n < 0 THEN TRUE
    ELSE IF a.n < 0 /\ b.n >= 0 THEN FALSE
    ELSE IF a.n >= 0 THEN a.n * a.n * b.v > b.n * b.n * a.v
    ELSE a.n * a.n * b.v < b.n * b.n * a.v

\* mutant of SharpeImproves: >= in place of >, so that the last tie wins
SharpeImprovesOrTies(sharpe_ratio, best) == ~FloatGT(best, sharpe_ratio)

\* the comparison of line 119, sharpe_ratio > max_sharpe_ratio
SharpeImproves(sharpe_ratio, best) == FloatGT(sharpe_ratio, best)

(***************************************************************************)
(* Lines 23-25: the data check.  DataFrame.empty is true when any axis has *)
(* length 0; len(df) is the number of rows.                                *)
(***************************************************************************)
DataFrameEmpty(df) == df.nrows = 0 \/ Len(df.columns) = 0

\* mutant of InsufficientData: the row count is not checked
InsufficientDataEmptyOnly(df) == DataFrameEmpty(df)

InsufficientData(df) == DataFrameEmpty(df) \/ df.nrows < 2

(***************************************************************************)
(* Lines 51-68: per-asset bounds from weight_bounds.  weight_bounds is     *)
(* [type, items]; an item is [pair, lo, hi], a number when pair is FALSE   *)
(* (lo = hi = the number) and a (min, max) tuple when pair is TRUE.        *)
(* The result is [exc, min, max, warned]: exc is the set of exceptions the *)
(* branch can raise (empty when it completes).                             *)
(***************************************************************************)
IsUniformTuple(wb) == wb.type = "tuple" /\ Len(wb.items) = 2

IsPerAssetList(wb, n) == wb.type = "list" /\ Len(wb.items) = n

DefaultBounds(n) ==
    [exc |-> {}, min |-> Fill(n, 0), max |-> Fill(n, Scale), warned |-> TRUE]

\* lines 57-58: ndarray.fill accepts a scalar only
UniformBounds(wb, n) ==
    IF wb.items[1].pair \/ wb.items[2].pair
    THEN [exc |-> {"TypeError", "ValueError"}, min |-> <<>>, max |-> <<>>,
          warned |-> FALSE]
    ELSE [exc |-> {}, min |-> Fill(n, wb.items[1].lo),
          max |-> Fill(n, wb.items[2].lo), warned |-> FALSE]

\* lines 61-63: each item is unpacked as (min_w, max_w)
PerAssetBounds(wb, n) ==
    IF \E i \in 1..n : ~wb.items[i].pair
    THEN [exc |-> {"TypeError"}, min |-> <<>>, max |-> <<>>, warned |-> FALSE]
    ELSE [exc |-> {}, min |-> [i \in 1..n |-> wb.items[i].lo],
          max |-> [i \in 1..n |-> wb.items[i].hi], warned |-> FALSE]

BuildBounds(wb, n) ==
    IF IsUniformTuple(wb) THEN UniformBounds(wb, n)
    ELSE IF IsPerAssetList(wb, n) THEN PerAssetBounds(wb, n)
    ELSE DefaultBounds(n)

(***************************************************************************)
(* Lines 35-43, 71-72, 97-102: the matrices handed to the solver.          *)
(***************************************************************************)
Unit(n, i) == [j \in 1..n |-> IF j = i THEN 1 ELSE 0]

G_matrix(n) == [r \in 1..(2 * n) |-> IF r <= n THEN [j \in 1..n |-> -Unit(n, r)[j]]
                                     ELSE Unit(n, r - n)]

\* mutant of h_vector: the lower bounds enter h without their minus sign
h_vector_unsigned(minw, maxw) ==
    [r \in 1..(2 * Len(minw)) |-> IF r <= Len(minw) THEN minw[r]
                                  ELSE maxw[r - Len(minw)]]

h_vector(minw, maxw) ==
    [r \in 1..(2 * Len(minw)) |-> IF r <= Len(minw) THEN -minw[r]
                                  ELSE maxw[r - Len(minw)]]

A_qp(mu) == <<Fill(Len(mu), 1), mu>>

b_qp(r_target) == <<Scale, r_target>>

\* line 86: np.linspace(min_return, max_return, num), in units of 1/(num - 1)
linspace(lo, hi, num) == [i \in 1..num |-> (num - 1) * lo + (i - 1) * (hi - lo)]

target_returns(mu) ==
    linspace(SeqMin(mu, Len(mu)), SeqMax(mu, Len(mu)), num_target_returns)

(***************************************************************************)
(* Line 105: solvers.qp(P, q, G, h, A, b), an external convex QP solver.   *)
(* It minimises (1/2) x'Px + q'x subject to Gx <= h and Ax = b.  It is a   *)
(* black box: on a feasible problem it answers 'optimal' with a minimiser, *)
(* or it faults; on an infeasible one it faults.  A fault is either the    *)
(* status 'unknown' or a ValueError, as `solver.kind` says; `solver.phase` *)
(* says at which calls the solver faults on its own.                       *)
(***************************************************************************)
\* exact quotient e / d when d divides e, else no value
Quotient(e, d) ==
    LET dd == IF d < 0 THEN -d ELSE d
        ee == IF d < 0 THEN -e ELSE e
        aa == IF ee < 0 THEN -ee ELSE ee
    IN IF aa % dd = 0 THEN {IF ee < 0 THEN -(aa \div dd) ELSE aa \div dd} ELSE {}

\* the points of a line of solutions that the solver may answer with
LineGrid == {i * (Scale \div 3) : i \in 0..3}

\* the grid points x with A x = b, for one or two unknowns and two rows whose
\* first row has a non-zero last coefficient; when the rows are dependent the
\* solutions are a line, of which the points with x1 in LineGrid are kept
EqSolutions(A, b) ==
    IF Len(A[1]) = 1
    THEN {<<x>> : x \in {y \in Quotient(b[1], A[1][1]) : A[2][1] * y = b[2]}}
    ELSE LET d == A[2][1] * A[1][2] - A[2][2] * A[1][1]
             e == b[2] * A[1][2] - A[2][2] * b[1]
             x1s == IF d # 0 THEN Quotient(e, d)
                    ELSE IF e = 0 THEN LineGrid ELSE {}
         IN UNION {{<<x1, x2>> : x2 \in Quotient(b[1] - A[1][1] * x1, A[1][2])} :
                   x1 \in x1s}

Objective(P, q, x) == Quad(P, x) + 2 * Dot(q, x)

Minimiser(P, q, feasible) ==
    LET vals == {Objective(P, q, x) : x \in feasible}
        least == CHOOSE v \in vals : \A u \in vals : v <= u
    IN CHOOSE x \in feasible : Objective(P, q, x) = least

SolverFaults(call) == (call % FaultPeriod) >= solver.phase

Fault == IF solver.kind = "ValueError"
         THEN [exc |-> "ValueError", status |-> "", x |-> <<>>]
         ELSE [exc |-> "", status |-> "unknown", x |-> <<>>]

qp(P, q, G, h, A, b, call) ==
    LET feasible == {x \in EqSolutions(A, b) :
                        \A r \in 1..Len(G) : Dot(G[r], x) <= h[r]}
    IN IF SolverFaults(call) \/ feasible = {} THEN Fault
       ELSE [exc |-> "", status |-> "optimal", x |-> Minimiser(P, q, feasible)]

\* mutant of Caught: the clause names another exception class
CaughtArithmeticOnly(exc) == exc = "ArithmeticError"

\* line 129: the except clause of the sweep
Caught(exc) == exc = "ValueError"

(***************************************************************************)
(* Lines 107-126: the row and the portfolio built from a solution.         *)
(***************************************************************************)
mu_of(df) == df.mean

sigma_of(df) == df.cov

num_assets_of(df) == Len(mu_of(df))

\* mutant of Sharpe: a zero-risk portfolio gets the ratio 0
SharpeZeroForNoRisk(portfolio_return, portfolio_risk, rf) ==
    IF portfolio_risk > 0
    THEN [n |-> portfolio_return - Scale * rf, v |-> portfolio_risk]
    ELSE [n |-> 0, v |-> 1]

\* line 110
Sharpe(portfolio_return, portfolio_risk, rf) ==
    IF portfolio_risk > 0
    THEN [n |-> portfolio_return - Scale * rf, v |-> portfolio_risk]
    ELSE NegInf

\* lines 112-117; df.columns[i] keys the weights
FrontierRow(df, rf, weights) ==
    LET portfolio_return == Dot(weights, mu_of(df))
        portfolio_risk == Quad(sigma_of(df), weights)
    IN [return |-> portfolio_return,
        risk |-> portfolio_risk,
        sharpe |-> Sharpe(portfolio_return, portfolio_risk, rf),
        weights |-> [c \in {df.columns[i] : i \in 1..Len(weights)} |->
                        weights[CHOOSE i \in 1..Len(weights) : df.columns[i] = c]]]

\* lines 121-126, 141-146, 152-157: the dict made from a row
Portfolio(row) ==
    [weights |-> row.weights, return |-> row.return, risk |-> row.risk,
     sharpe |-> row.sharpe]

(***************************************************************************)
(* Lines 140 and 151: Series.idxmin / Series.idxmax, the first position of *)
(* the least / greatest value.                                             *)
(***************************************************************************)
\* mutant of idxmin_risk: the leftmost row is taken for the least risky one
leftmost_row(ef) == 1

idxmin_risk(ef) ==
    CHOOSE i \in 1..Len(ef) :
        /\ \A j \in 1..Len(ef) : ef[i].risk <= ef[j].risk
        /\ \A j \in 1..(i - 1) : ef[i].risk < ef[j].risk

idxmax_sharpe(ef) ==
    CHOOSE i \in 1..Len(ef) :
        /\ \A j \in 1..Len(ef) : ~FloatGT(ef[j].sharpe, ef[i].sharpe)
        /\ \A j \in 1..(i - 1) : FloatGT(ef[i].sharpe, ef[j].sharpe)

\* mutant of NeedsFallback: the post-hoc scan is left out
NoFallback(msp, ef) == FALSE

\* line 149
NeedsFallback(msp, ef) == msp = None /\ Len(ef) > 0

(***************************************************************************)
(* optimize_portfolio, lines 23-91: the data check, the bounds and the     *)
(* initial values of the sweep.                                            *)
(***************************************************************************)
Enter ==
    /\ fn = "optimize_portfolio"
    /\ pc = "call"
    /\ IF InsufficientData(returns_df)
       THEN /\ stdout' = Append(stdout, "Error: Not enough data for portfolio optimization.")
            /\ result' = None
            /\ pc' = "returned"
            /\ UNCHANGED <<min_weights, max_weights, exception>>
       ELSE LET bounds == BuildBounds(weight_bounds, num_assets_of(returns_df))
            IN IF bounds.exc # {}
               THEN /\ exception' \in bounds.exc
                    /\ pc' = "raised"
                    /\ UNCHANGED <<min_weights, max_weights, stdout, result>>
               ELSE /\ min_weights' = bounds.min
                    /\ max_weights' = bounds.max
                    /\ stdout' = IF bounds.warned
                                 THEN Append(stdout, "Warning: Invalid weight_bounds format. Using default (0.0, 1.0) for all assets.")
                                 ELSE stdout
                    /\ pc' = "sweep"
                    /\ UNCHANGED <<exception, result>>
    /\ target_idx' = 1
    /\ efficient_frontier' = <<>>
    /\ max_sharpe_portfolio' = None
    /\ min_variance_portfolio' = None
    /\ max_sharpe_ratio' = NegInf
    /\ UNCHANGED <<fn, returns_df, risk_free_rate, weight_bounds, solver, qp_log,
                   fallback_taken, genVars, stderr>>

(***************************************************************************)
(* Lines 93-130: one iteration of the sweep.                               *)
(***************************************************************************)
SolveTarget ==
    /\ fn = "optimize_portfolio"
    /\ pc = "sweep"
    /\ target_idx <= num_target_returns
    /\ LET mu == mu_of(returns_df)
           n == num_assets_of(returns_df)
           r_target == target_returns(mu)[target_idx]
           sol == qp(sigma_of(returns_df), Fill(n, 0), G_matrix(n),
                     h_vector(min_weights, max_weights), A_qp(mu), b_qp(r_target),
                     target_idx)
           row == FrontierRow(returns_df, risk_free_rate, sol.x)
       IN /\ qp_log' = Append(qp_log, [target |-> r_target, exc |-> sol.exc,
                                       status |-> sol.status, x |-> sol.x])
          /\ IF sol.exc # "" /\ ~Caught(sol.exc)
             THEN /\ exception' = sol.exc
                  /\ pc' = "raised"
                  /\ UNCHANGED <<target_idx, efficient_frontier, max_sharpe_ratio,
                                 max_sharpe_portfolio>>
             ELSE /\ target_idx' = target_idx + 1
                  /\ UNCHANGED <<pc, exception>>
                  /\ IF sol.exc = "" /\ sol.status = "optimal"
                     THEN /\ efficient_frontier' = Append(efficient_frontier, row)
                          /\ IF SharpeImproves(row.sharpe, max_sharpe_ratio)
                             THEN /\ max_sharpe_ratio' = row.sharpe
                                  /\ max_sharpe_portfolio' = Some(Portfolio(row))
                             ELSE UNCHANGED <<max_sharpe_ratio, max_sharpe_portfolio>>
                     ELSE UNCHANGED <<efficient_frontier, max_sharpe_ratio,
                                      max_sharpe_portfolio>>
    /\ UNCHANGED <<fn, returns_df, risk_free_rate, weight_bounds, solver, min_weights,
                   max_weights, min_variance_portfolio, fallback_taken, genVars,
                   stdout, stderr, result>>

(***************************************************************************)
(* Lines 133-164: the frame, the two scans and the returned dict.          *)
(***************************************************************************)
Finish ==
    /\ fn = "optimize_portfolio"
    /\ pc = "sweep"
    /\ target_idx > num_target_returns
    /\ LET ef == efficient_frontier
           mvp == IF Len(ef) > 0 THEN Some(Portfolio(ef[idxmin_risk(ef)])) ELSE None
           scan == NeedsFallback(max_sharpe_portfolio, ef)
           msp == IF scan THEN Some(Portfolio(ef[idxmax_sharpe(ef)]))
                  ELSE max_sharpe_portfolio
       IN /\ min_variance_portfolio' = mvp
          /\ max_sharpe_portfolio' = msp
          /\ fallback_taken' = scan
          /\ result' = Some([efficient_frontier |-> ef,
                             max_sharpe_portfolio |-> msp,
                             min_variance_portfolio |-> mvp])
    /\ pc' = "returned"
    /\ UNCHANGED <<fn, returns_df, risk_free_rate, weight_bounds, solver, min_weights,
                   max_weights, target_idx, efficient_frontier, max_sharpe_ratio,
                   qp_log, genVars, stdout, stderr, exception>>

(***************************************************************************)
(* return_portfolios (src/random_portfolios_gen.py).                       *)
(* expected_returns is [series, index, values]: a pd.Series with its index *)
(* labels, or a plain array.  cov_matrix is a list of rows.  A weight      *)
(* vector weights / np.sum(weights) is held as [num, den].                 *)
(***************************************************************************)
\* lines 3-4: the names the module imports
Imports == {"pd", "np"}

\* line 25: f'Asset_{i+1}' for i in range(len(expected_returns))
DefaultName(i) == CASE i = 1 -> "Asset_1" [] i = 2 -> "Asset_2" [] OTHER -> "Asset_n"

\* lines 21-25
asset_names(er) ==
    IF er.series THEN er.index ELSE [i \in 1..Len(er.values) |-> DefaultName(i)]

\* lines 70 and 76: f'{asset}Weight'
WeightColumn(asset) ==
    CASE asset = "A" -> "AWeight" [] asset = "B" -> "BWeight"
      [] asset = "Asset_1" -> "Asset_1Weight" [] asset = "Asset_2" -> "Asset_2Weight"
      [] OTHER -> "Weight"

\* line 32: cov_matrix.shape
Shape(m) == <<Len(m), IF Len(m) = 0 THEN 0 ELSE Len(m[1])>>

ShapeMismatch(er, cov) == Shape(cov) # <<Len(er.values), Len(er.values)>>

\* line 67: np.array(stock_weights).T.  A list of m >= 1 vectors of length n
\* becomes an (n, m) array; the empty list becomes an array of shape (0,),
\* whose transpose is itself.
NpArrayT(sw) ==
    IF Len(sw) = 0 THEN <<>>
    ELSE [i \in 1..Len(sw[1].num) |->
             [j \in 1..Len(sw) |-> [num |-> sw[j].num[i], den |-> sw[j].den]]]

\* lines 21-42: the conversions and the shape check
GenEnter ==
    /\ fn = "return_portfolios"
    /\ pc = "call"
    /\ IF ShapeMismatch(expected_returns, cov_matrix)
       THEN IF "sys" \in Imports
            THEN /\ stderr' = Append(stderr, "Error: Covariance matrix shape does not match the number of assets.")
                 /\ result' = None
                 /\ pc' = "returned"
                 /\ UNCHANGED exception
            ELSE /\ exception' = "NameError"
                 /\ pc' = "raised"
                 /\ UNCHANGED <<stderr, result>>
       ELSE /\ pc' = "sample"
            /\ UNCHANGED <<stderr, result, exception>>
    /\ port_returns' = <<>>
    /\ port_volatility' = <<>>
    /\ stock_weights' = <<>>
    /\ UNCHANGED <<fn, optVars, expected_returns, cov_matrix, num_portfolios, stdout>>

\* np.random.random: the values a draw can take, in an arbitrary unit
RandomValues == {1, 2}

\* lines 44-59: one iteration of the sampling loop
Sample ==
    /\ fn = "return_portfolios"
    /\ pc = "sample"
    /\ Len(stock_weights) < num_portfolios
    /\ \E draw \in [1..Len(expected_returns.values) -> RandomValues] :
          LET total == SumTo(draw, Len(draw))
          IN /\ stock_weights' = Append(stock_weights, [num |-> draw, den |-> total])
             /\ port_returns' = Append(port_returns,
                    [num |-> Dot(draw, expected_returns.values), den |-> total])
             /\ port_volatility' = Append(port_volatility,
                    [num |-> Quad(cov_matrix, draw), den |-> total * total])
    /\ UNCHANGED <<fn, pc, optVars, expected_returns, cov_matrix, num_portfolios,
                   stdout, stderr, exception, result>>

\* lines 61-79: the dict of columns, the frame and the column order
Build ==
    /\ fn = "return_portfolios"
    /\ pc = "sample"
    /\ Len(stock_weights) >= num_portfolios
    /\ LET names == asset_names(expected_returns)
           weights_per_asset == NpArrayT(stock_weights)
           weight_cols == [i \in 1..Len(names) |-> WeightColumn(names[i])]
           column_order == <<"Returns", "Volatility">> \o weight_cols
       IN IF \E i \in 1..Len(names) : i > Len(weights_per_asset)
          THEN /\ exception' = "IndexError"
               /\ pc' = "raised"
               /\ UNCHANGED result
          ELSE /\ result' = Some([columns |-> column_order,
                                  data |-> [c \in 1..Len(column_order) |->
                                      IF c = 1 THEN port_returns
                                      ELSE IF c = 2 THEN port_volatility
                                      ELSE weights_per_asset[c - 2]]])
               /\ pc' = "returned"
               /\ UNCHANGED exception
    /\ UNCHANGED <<fn, optVars, genVars, stdout, stderr>>

(***************************************************************************)
(* Inputs.                                                                 *)
(***************************************************************************)
Tickers == <<"A", "B">>

MeanValues == {0, 1}

CovEntries == {-1, 0, 1}

RiskFreeRates == {0, 1}

Third == Scale \div 3

Num(v) == [pair |-> FALSE, lo |-> v, hi |-> v]

Pair(lo, hi) == [pair |-> TRUE, lo |-> lo, hi |-> hi]

Zeros(n) == Fill(n, Fill(n, 0))

Identity(n) == [i \in 1..n |-> Unit(n, i)]

\* symmetric positive-semidefinite matrices, as DataFrame.cov() returns them
CovMatrices(n) ==
    {m \in [1..n -> [1..n -> CovEntries]] :
        /\ \A i, j \in 1..n : m[i][j] = m[j][i]
        /\ \A i \in 1..n : m[i][i] >= 0
        /\ \A i, j \in 1..n : m[i][i] * m[j][j] >= m[i][j] * m[i][j]}

\* the frames with r rows and n columns: shape, columns, mean() and cov();
\* the mean and covariance of a frame too short to be optimised are never read
FramesOf(r, n, means, covs) ==
    IF r < 2 \/ n = 0
    THEN {[nrows |-> r, columns |-> SubSeq(Tickers, 1, n), mean |-> Fill(n, 0),
           cov |-> Zeros(n)]}
    ELSE {[nrows |-> r, columns |-> SubSeq(Tickers, 1, n), mean |-> m, cov |-> c] :
             m \in means, c \in covs}

Solvers == [kind : {"unknown", "ValueError"}, phase : 0..FaultPeriod]

Items == {Num(0), Num(Scale), Pair(0, 2 * Third), Pair(Third, Scale)}

\* the values of weight_bounds tried with n assets
WeightBoundsInputs(n) ==
    {[type |-> "NoneType", items |-> <<>>]} \cup
    {[type |-> t, items |-> s] :
        t \in {"tuple", "list"},
        s \in UNION {[1..len -> Items] : len \in 1..(n + 1)}}

UnitBounds == [type |-> "tuple", items |-> <<Num(0), Num(Scale)>>]

noSweep ==
    /\ min_weights = <<>>
    /\ max_weights = <<>>
    /\ target_idx = 1
    /\ efficient_frontier = <<>>
    /\ max_sharpe_ratio = NegInf
    /\ max_sharpe_portfolio = None
    /\ min_variance_portfolio = None
    /\ qp_log = <<>>
    /\ fallback_taken = FALSE

noOutput ==
    /\ pc = "call"
    /\ stdout = <<>>
    /\ stderr = <<>>
    /\ exception = ""
    /\ result = None

genIdle ==
    /\ expected_returns = [series |-> FALSE, index |-> <<>>, values |-> <<>>]
    /\ cov_matrix = <<>>
    /\ num_portfolios = 0
    /\ port_returns = <<>>
    /\ port_volatility = <<>>
    /\ stock_weights = <<>>

optIdle ==
    /\ returns_df = [nrows |-> 0, columns |-> <<>>, mean |-> <<>>, cov |-> <<>>]
    /\ risk_free_rate = 0
    /\ weight_bounds = [type |-> "NoneType", items |-> <<>>]
    /\ solver = [kind |-> "unknown", phase |-> 0]
    /\ noSweep

\* calls that vary the market, the risk-free rate and the solver
InitSweep ==
    /\ fn = "optimize_portfolio"
    /\ returns_df \in UNION {FramesOf(r, n, [1..n -> MeanValues], CovMatrices(n)) :
                                r \in 0..MaxObs, n \in 0..Len(Tickers)}
    /\ risk_free_rate \in RiskFreeRates
    /\ weight_bounds = UnitBounds
    /\ solver \in Solvers
    /\ noSweep /\ noOutput /\ genIdle

\* calls that vary weight_bounds
InitBounds ==
    /\ fn = "optimize_portfolio"
    /\ \E n \in 1..Len(Tickers) :
          /\ returns_df \in FramesOf(MaxObs, n, {[i \in 1..n |-> i - 1]}, {Identity(n)})
          /\ weight_bounds \in WeightBoundsInputs(n)
    /\ risk_free_rate = 0
    /\ solver = [kind |-> "unknown", phase |-> FaultPeriod]
    /\ noSweep /\ noOutput /\ genIdle

InitGen ==
    /\ fn = "return_portfolios"
    /\ \E n \in 1..Len(Tickers) :
          expected_returns \in
              [series : {TRUE}, index : {SubSeq(Tickers, 1, n)},
               values : [1..n -> MeanValues]]
              \cup [series : {FALSE}, index : {<<>>}, values : [1..n -> MeanValues]]
    /\ \E r, c \in 1..MaxCovDim :
          cov_matrix = [i \in 1..r |-> [j \in 1..c |-> IF i = j THEN 1 ELSE 0]]
    /\ num_portfolios \in 0..MaxPortfolios
    /\ port_returns = <<>>
    /\ port_volatility = <<>>
    /\ stock_weights = <<>>
    /\ optIdle /\ noOutput

Init == InitSweep \/ InitBounds \/ InitGen

Next == Enter \/ SolveTarget \/ Finish \/ GenEnter \/ Sample \/ Build

Spec == Init /\ [][Next]_vars

(***************************************************************************)
(* Vocabulary of the properties.                                           *)
(***************************************************************************)
Optimizing == fn = "optimize_portfolio"

Generating == fn = "return_portfolios"

\* optimize_portfolio returned its dict
ReturnedDict == Optimizing /\ pc = "returned" /\ result # None

SameAsRow(p, row) ==
    /\ p.return = row.return
    /\ p.risk = row.risk
    /\ p.sharpe = row.sharpe
    /\ p.weights = row.weights

OptimalCalls == SelectSeq(qp_log, LAMBDA c : c.exc = "" /\ c.status = "optimal")

RowWeights(row) == [i \in 1..Len(returns_df.columns) |-> row.weights[returns_df.columns[i]]]

(***************************************************************************)
(* C1.  When optimize_portfolio returns a non-empty frontier, the reported *)
(* max_sharpe_portfolio has the return, risk, Sharpe and weights of a      *)
(* frontier row that no row exceeds in Sharpe and that strictly exceeds    *)
(* every earlier row: the first row of greatest Sharpe, -infinity          *)
(* included.                                                               *)
(***************************************************************************)
C1_MaxSharpeIsFirstBest ==
    (ReturnedDict /\ Len(result[1].efficient_frontier) > 0) =>
        LET ef == result[1].efficient_frontier
            p == result[1].max_sharpe_portfolio
        IN /\ p # None
           /\ \E i \in 1..Len(ef) :
                 /\ SameAsRow(p[1], ef[i])
                 /\ \A j \in 1..Len(ef) : ~FloatGT(ef[j].sharpe, ef[i].sharpe)
                 /\ \A j \in 1..(i - 1) : FloatGT(ef[i].sharpe, ef[j].sharpe)

\* a returned frontier that starts with a -infinity row and in which two
\* different rows tie for the greatest, finite, Sharpe
C1_Witness ==
    /\ ReturnedDict
    /\ LET ef == result[1].efficient_frontier
       IN /\ Len(ef) > 2
          /\ IsNegInf(ef[1].sharpe)
          /\ LET i == idxmax_sharpe(ef)
             IN /\ ~IsNegInf(ef[i].sharpe)
                /\ \E j \in (i + 1)..Len(ef) :
                      /\ ~FloatGT(ef[i].sharpe, ef[j].sharpe)
                      /\ ef[j].weights # ef[i].weights

(***************************************************************************)
(* C2.  When optimize_portfolio returns a non-empty frontier, the reported *)
(* min_variance_portfolio has the return, risk, Sharpe and weights of a    *)
(* frontier row whose risk no row undercuts; it is set only after the      *)
(* sweep, and the solver has been called once per target and no more.      *)
(***************************************************************************)
C2_MinVarianceIsLeastRisk ==
    /\ (Optimizing /\ pc \in {"call", "sweep"}) => min_variance_portfolio = None
    /\ (ReturnedDict /\ Len(result[1].efficient_frontier) > 0) =>
          LET ef == result[1].efficient_frontier
              p == result[1].min_variance_portfolio
          IN /\ p # None
             /\ Len(qp_log) = num_target_returns
             /\ \E i \in 1..Len(ef) :
                   /\ SameAsRow(p[1], ef[i])
                   /\ \A j \in 1..Len(ef) : ef[i].risk <= ef[j].risk

\* a returned frontier whose least risk is neither at its first nor at its
\* last row
C2_Witness ==
    /\ ReturnedDict
    /\ LET ef == result[1].efficient_frontier
       IN /\ Len(ef) > 2
          /\ result[1].min_variance_portfolio # None
          /\ result[1].min_variance_portfolio[1].risk < ef[1].risk
          /\ result[1].min_variance_portfolio[1].risk < ef[Len(ef)].risk

(***************************************************************************)
(* C3.  Every row of the frontier has weights that sum to 1 and lie within *)
(* the bounds the caller asked for: the uniform pair when weight_bounds is *)
(* a 2-tuple, the i-th pair when it is a list of one pair per asset, and   *)
(* (0, 1) otherwise.  (The solver answers 'optimal' only with a point that *)
(* satisfies the constraints it was given.)                                *)
(***************************************************************************)
AskedMin(i) ==
    IF weight_bounds.type = "tuple" /\ Len(weight_bounds.items) = 2
    THEN weight_bounds.items[1].lo
    ELSE IF weight_bounds.type = "list"
            /\ Len(weight_bounds.items) = Len(returns_df.columns)
         THEN weight_bounds.items[i].lo
         ELSE 0

AskedMax(i) ==
    IF weight_bounds.type = "tuple" /\ Len(weight_bounds.items) = 2
    THEN weight_bounds.items[2].lo
    ELSE IF weight_bounds.type = "list"
            /\ Len(weight_bounds.items) = Len(returns_df.columns)
         THEN weight_bounds.items[i].hi
         ELSE Scale

C3_RowsWithinBounds ==
    Optimizing =>
        \A r \in 1..Len(efficient_frontier) :
            LET w == RowWeights(efficient_frontier[r])
            IN /\ SumTo(w, Len(w)) = Scale
               /\ \A i \in 1..Len(w) : AskedMin(i) <= w[i] /\ w[i] <= AskedMax(i)

\* a per-asset list with two different pairs: a frontier whose rows stop short
\* of both ends of the sweep
C3_Witness ==
    /\ ReturnedDict
    /\ weight_bounds.type = "list"
    /\ Len(weight_bounds.items) = 2
    /\ weight_bounds.items[1] # weight_bounds.items[2]
    /\ Len(efficient_frontier) > 1
    /\ Len(efficient_frontier) < num_target_returns

(***************************************************************************)
(* C4.  On a table that is empty or has fewer than 2 rows the call returns *)
(* None after printing the error: no bounds were built, the solver was     *)
(* never called, and there is no frontier and no portfolio.                *)
(***************************************************************************)
C4_InsufficientDataReturnsNothing ==
    (/\ Optimizing
     /\ pc # "call"
     /\ (returns_df.nrows < 2 \/ Len(returns_df.columns) = 0)) =>
        /\ pc = "returned"
        /\ result = None
        /\ exception = ""
        /\ stdout = <<"Error: Not enough data for portfolio optimization.">>
        /\ min_weights = <<>>
        /\ max_weights = <<>>
        /\ qp_log = <<>>
        /\ efficient_frontier = <<>>
        /\ max_sharpe_portfolio = None
        /\ min_variance_portfolio = None

\* a table of one observation row was turned down
C4_Witness ==
    /\ Optimizing
    /\ pc = "returned"
    /\ returns_df.nrows = 1
    /\ Len(returns_df.columns) > 0
    /\ result = None

(***************************************************************************)
(* C5.  When the shape of cov_matrix is not (asset_count, asset_count),    *)
(* return_portfolios ends by printing its diagnostic and returning None,   *)
(* having drawn no sample.                                                 *)
(***************************************************************************)
C5_MismatchReturnsNull ==
    (/\ Generating
     /\ pc # "call"
     /\ Shape(cov_matrix) # <<Len(expected_returns.values), Len(expected_returns.values)>>) =>
        /\ pc = "returned"
        /\ result = None
        /\ exception = ""
        /\ Len(stderr) = 1
        /\ stock_weights = <<>>

(***************************************************************************)
(* C6.  A weight_bounds that is neither a 2-tuple of numbers nor a list of *)
(* one (min, max) pair per asset never makes optimize_portfolio fail: the  *)
(* warning is printed, every asset gets the bounds 0 and 1, and the sweep  *)
(* goes on.                                                                *)
(***************************************************************************)
ValidUniformPair ==
    /\ weight_bounds.type = "tuple"
    /\ Len(weight_bounds.items) = 2
    /\ \A i \in 1..2 : ~weight_bounds.items[i].pair

ValidPerAssetList ==
    /\ weight_bounds.type = "list"
    /\ Len(weight_bounds.items) = Len(returns_df.columns)
    /\ \A i \in 1..Len(weight_bounds.items) : weight_bounds.items[i].pair

C6_MalformedBoundsFallBack ==
    (/\ Optimizing
     /\ pc # "call"
     /\ returns_df.nrows >= 2
     /\ Len(returns_df.columns) > 0
     /\ ~ValidUniformPair
     /\ ~ValidPerAssetList) =>
        /\ pc \in {"sweep", "returned"}
        /\ exception = ""
        /\ stdout = <<"Warning: Invalid weight_bounds format. Using default (0.0, 1.0) for all assets.">>
        /\ min_weights = Fill(Len(returns_df.columns), 0)
        /\ max_weights = Fill(Len(returns_df.columns), Scale)

(***************************************************************************)
(* C7.  With a covariance matrix of the right shape, return_portfolios     *)
(* returns a table of exactly num_portfolios rows whose columns are        *)
(* Returns, Volatility and one '<asset>Weight' per asset, in input order.  *)
(***************************************************************************)
C7_TableShape ==
    (/\ Generating
     /\ pc \in {"returned", "raised"}
     /\ Shape(cov_matrix) = <<Len(expected_returns.values), Len(expected_returns.values)>>) =>
        /\ pc = "returned"
        /\ result # None
        /\ LET names == asset_names(expected_returns)
               table == result[1]
           IN /\ Len(table.columns) = Len(expected_returns.values) + 2
              /\ table.columns[1] = "Returns"
              /\ table.columns[2] = "Volatility"
              /\ \A i \in 1..Len(names) : table.columns[i + 2] = WeightColumn(names[i])
              /\ \A c \in 1..Len(table.columns) : Len(table.data[c]) = num_portfolios

(***************************************************************************)
(* C8.  When optimize_portfolio returns from a table of at least 2 rows,   *)
(* both portfolios are null and the frontier is empty if no solve was      *)
(* optimal, and both are non-null and the frontier is non-empty if some    *)
(* solve was.                                                              *)
(***************************************************************************)
C8_NullIffEmptyFrontier ==
    (/\ Optimizing
     /\ pc = "returned"
     /\ returns_df.nrows >= 2
     /\ Len(returns_df.columns) > 0) =>
        /\ result # None
        /\ IF Len(OptimalCalls) = 0
           THEN /\ result[1].efficient_frontier = <<>>
                /\ result[1].max_sharpe_portfolio = None
                /\ result[1].min_variance_portfolio = None
           ELSE /\ result[1].efficient_frontier # <<>>
                /\ result[1].max_sharpe_portfolio # None
                /\ result[1].min_variance_portfolio # None

\* a sweep in which no target was feasible
C8_Witness ==
    /\ ReturnedDict
    /\ Len(qp_log) = num_target_returns
    /\ result[1].efficient_frontier = <<>>
    /\ result[1].max_sharpe_portfolio = None
    /\ result[1].min_variance_portfolio = None

(***************************************************************************)
(* C9.  The sweep calls the solver once per target, in ascending order of  *)
(* target, 100 times in all; the frontier holds exactly the solutions of   *)
(* the calls that ended 'optimal', in call order; a call that ends with    *)
(* another status or a ValueError leaves the frontier and the running      *)
(* maximum as they were and the sweep goes on; no exception leaves the     *)
(* sweep.                                                                  *)
(***************************************************************************)
C9_State ==
    Optimizing =>
        /\ pc = "raised" => qp_log = <<>>
        /\ pc = "sweep" => Len(qp_log) = target_idx - 1
        /\ ReturnedDict =>
              /\ Len(qp_log) = num_target_returns
              /\ result[1].efficient_frontier = efficient_frontier
        /\ \A i \in 1..(Len(qp_log) - 1) : qp_log[i].target <= qp_log[i + 1].target
        /\ Len(efficient_frontier) = Len(OptimalCalls)
        /\ \A i \in 1..Len(efficient_frontier) :
              RowWeights(efficient_frontier[i]) = OptimalCalls[i].x

C9_Step ==
    (Optimizing /\ qp_log' # qp_log) =>
        LET call == qp_log'[Len(qp_log')]
        IN /\ Len(qp_log') = Len(qp_log) + 1
           /\ pc' = "sweep"
           /\ target_idx' = target_idx + 1
           /\ (call.exc # "" \/ call.status # "optimal") =>
                 UNCHANGED <<efficient_frontier, max_sharpe_ratio, max_sharpe_portfolio>>

C9_SweepSkipsFailedTargets == [](C9_State) /\ [][C9_Step]_vars

\* a returned sweep in which some calls raised ValueError and others were
\* optimal
C9_Witness ==
    /\ ReturnedDict
    /\ Len(qp_log) = num_target_returns
    /\ \E i \in 1..Len(qp_log) : qp_log[i].exc = "ValueError"
    /\ Len(efficient_frontier) > 0
    /\ Len(efficient_frontier) < num_target_returns

====
